---- MODULE Spec2Model ----
(***************************************************************************)
(* A state-machine model of gdq_cal_ics_exporter.py: one invocation of     *)
(* main() against a schedule API response, a tagged-name file and a        *)
(* remote calendar service.  Every action is one statement group of        *)
(* main(); create_cal and find_or_create_google_calendars are operators    *)
(* that compute what the Python computes, exceptions included.             *)
(*                                                                         *)
(* Text that the code only formats and compares is kept as TLA+ strings    *)
(* or as sequences of string pieces.  Text that the code encodes (the      *)
(* logical UID, the event name it is derived from) is a sequence of byte   *)
(* values, so that the base-32 encoding is computed bit by bit.            *)
(***************************************************************************)
EXTENDS Integers, Sequences, FiniteSets, TLC

\* ------------------------------------------------------------------ bounds

\* Longest schedule the API returns.
MaxRecords == 2
\* Most stale entries (of runs no longer scheduled) listed on a remote calendar.
MaxStale == 2
\* Largest page size of the remote event listing.
MaxPerPage == 1
\* Largest source run id of the identifier study.
MaxRunId == 11

\* --------------------------------------------------------------- sequences

RECURSIVE SeqToSet(_)
SeqToSet(s) == IF s = <<>> THEN {} ELSE {Head(s)} \cup SeqToSet(Tail(s))

RECURSIVE Flatten(_)
Flatten(ss) == IF ss = <<>> THEN <<>> ELSE Head(ss) \o Flatten(Tail(ss))

Min(a, b) == IF a < b THEN a ELSE b

\* ------------------------------------------------------------ str methods

\* str.lower() on the names and titles of the model's universe.
Lower(s) ==
    CASE s = "Alice" -> "alice"
      [] s = "ALICE" -> "alice"
      [] s = "Bob" -> "bob"
      [] s = "Tech Crew" -> "tech crew"
      [] s = "Faith" -> "faith"
      [] s = "Sleep" -> "sleep"
      [] s = "Celeste" -> "celeste"
      [] s = "Hades" -> "hades"
      [] s = "Finale" -> "finale"
      [] s = "Interview" -> "interview"
      [] OTHER -> s

\* sep.join(parts), as the sequence of its pieces.
RECURSIVE Join(_, _)
Join(parts, sep) ==
    IF parts = <<>> THEN <<>>
    ELSE IF Len(parts) = 1 THEN <<parts[1]>>
    ELSE <<parts[1], sep>> \o Join(Tail(parts), sep)

\* str.upper() of one ASCII byte.
UpperByte(c) == IF c >= 97 /\ c <= 122 THEN c - 32 ELSE c

\* str(n) of a natural number, as ASCII bytes.
RECURSIVE DecStr(_)
DecStr(n) == IF n < 10 THEN <<48 + n>> ELSE DecStr(n \div 10) \o <<48 + (n % 10)>>

\* int(s) of a string of ASCII digits.
RECURSIVE ParseInt(_)
ParseInt(s) ==
    IF s = <<>> THEN 0 ELSE 10 * ParseInt(SubSeq(s, 1, Len(s) - 1)) + (s[Len(s)] - 48)

\* ------------------------------------------------------- identity deriver

\* '{}||{}||{}'.format(GDQ_EVENT_YEAR, GDQ_EVENT_NAME, run.id)
LogicalUid(year, name, id) == year \o <<124, 124>> \o name \o <<124, 124>> \o DecStr(id)

\* The base-32 extended-hex alphabet of base64.b32hexencode.
B32HexAlphabet ==
    << "0", "1", "2", "3", "4", "5", "6", "7", "8", "9", "A", "B", "C", "D", "E", "F",
       "G", "H", "I", "J", "K", "L", "M", "N", "O", "P", "Q", "R", "S", "T", "U", "V" >>

\* The k-th five-bit group (k = 1..8) of the 40 bits of a five-byte quantum,
\* most significant first, as a number 0..31.
Group(q, k) ==
    CASE k = 1 -> q[1] \div 8
      [] k = 2 -> (q[1] % 8) * 4 + q[2] \div 64
      [] k = 3 -> (q[2] \div 2) % 32
      [] k = 4 -> (q[2] % 2) * 16 + q[3] \div 16
      [] k = 5 -> (q[3] % 16) * 2 + q[4] \div 128
      [] k = 6 -> (q[4] \div 4) % 32
      [] k = 7 -> (q[4] % 4) * 8 + q[5] \div 32
      [] k = 8 -> q[5] % 32

\* A bug: the character holding the last, partial group is replaced by padding too.
DataCharsShort(leftover) ==
    CASE leftover = 0 -> 8
      [] leftover = 1 -> 1
      [] leftover = 2 -> 3
      [] leftover = 3 -> 4
      [] leftover = 4 -> 6

\* How many characters of the last quantum carry data, by the bytes left over.
DataChars(leftover) ==
    CASE leftover = 0 -> 8
      [] leftover = 1 -> 2
      [] leftover = 2 -> 4
      [] leftover = 3 -> 5
      [] leftover = 4 -> 7

\* One quantum of `n` data bytes (zero-filled to five) as eight characters, the
\* characters without data replaced by "=".
EncodeQuantum(q, n) ==
    LET keep == DataChars(n % 5)
    IN  [k \in 1..8 |-> IF k <= keep THEN B32HexAlphabet[Group(q, k) + 1] ELSE "="]

\* base64.b32hexencode(s): five bytes at a time, the last quantum zero-filled.
RECURSIVE B32HexEncode(_)
B32HexEncode(s) ==
    IF s = <<>> THEN <<>>
    ELSE IF Len(s) >= 5
         THEN EncodeQuantum(SubSeq(s, 1, 5), 5) \o B32HexEncode(SubSeq(s, 6, Len(s)))
         ELSE EncodeQuantum(s \o [i \in 1..(5 - Len(s)) |-> 0], Len(s))

\* .replace('=', '')
StripPadding(cs) == SelectSeq(cs, LAMBDA c : c # "=")

\* str.lower() of one character of the encoder's output.
LowerChar(c) ==
    CASE c = "A" -> "a" [] c = "B" -> "b" [] c = "C" -> "c" [] c = "D" -> "d"
      [] c = "E" -> "e" [] c = "F" -> "f" [] c = "G" -> "g" [] c = "H" -> "h"
      [] c = "I" -> "i" [] c = "J" -> "j" [] c = "K" -> "k" [] c = "L" -> "l"
      [] c = "M" -> "m" [] c = "N" -> "n" [] c = "O" -> "o" [] c = "P" -> "p"
      [] c = "Q" -> "q" [] c = "R" -> "r" [] c = "S" -> "s" [] c = "T" -> "t"
      [] c = "U" -> "u" [] c = "V" -> "v" [] OTHER -> c

\* base64.b32hexencode(bytes(icalUid, 'UTF-8')).decode('UTF-8').replace('=', '').lower()
EncodeRemoteId(icalUid) ==
    LET enc == StripPadding(B32HexEncode(icalUid))
    IN  [i \in 1..Len(enc) |-> LowerChar(enc[i])]

\* ------------------------------------------------------------- time values

\* An offset-aware ISO timestamp: wall-clock hour `local` at UTC offset `off`.
Iso(local, off) == [kind |-> "iso", local |-> local, off |-> off]
\* A JSON null where a timestamp is expected.
Null == [kind |-> "null", local |-> 0, off |-> 0]
\* The key is not in the record at all.
Absent == [kind |-> "absent", local |-> 0, off |-> 0]
\* A field of the remote payload that create_cal has not set.
Unset == [kind |-> "unset", local |-> 0, off |-> 0]

\* datetime.fromisoformat(t).astimezone(pytz.utc), as an hour count.
ToUtc(t) == t.local - t.off

\* ------------------------------------------------------ the input universe

RawRecord(type, name, runners, starttime, endtime, id) ==
    [type |-> type, name |-> name, runners |-> runners, starttime |-> starttime,
     endtime |-> endtime, id |-> id, category |-> "Any%", console |-> "PC"]

\* Schedule records of the main study: informational segments, the placeholder
\* run in both its forms, ordinary runs, and records the source may send broken.
RawRecords ==
    { RawRecord("interview", "Interview", <<"Bob">>, Iso(9, -5), Iso(10, -5), 1),
      RawRecord("speedrun", "Sleep", <<"Tech Crew">>, Iso(2, -5), Iso(8, -5), 2),
      RawRecord("speedrun", "Sleep", <<"Bob", "Faith">>, Iso(2, -5), Iso(8, -5), 3),
      RawRecord("speedrun", "Celeste", <<"Alice", "Bob">>, Iso(10, -5), Iso(11, -5), 4),
      RawRecord("speedrun", "Sleep", <<>>, Iso(11, -5), Iso(12, -5), 5),
      RawRecord("speedrun", "Hades", <<"Bob">>, Null, Iso(13, -5), 6),
      RawRecord("speedrun", "Hades", <<"Alice">>, Iso(13, -5), Absent, 7),
      RawRecord("speedrun", "Celeste", <<"ALICE">>, Iso(14, -5), Iso(14, -5), 8),
      RawRecord("speedrun", "Finale", <<"ALICE", "Bob">>, Iso(15, -5), Iso(16, -5), 9) }

\* Schedule records of the sync study: well-formed records only.
SyncRecords ==
    { RawRecord("interview", "Interview", <<"Bob">>, Iso(9, -5), Iso(10, -5), 1),
      RawRecord("speedrun", "Celeste", <<"Alice", "Bob">>, Iso(10, -5), Iso(11, -5), 4),
      RawRecord("speedrun", "Hades", <<"Bob">>, Iso(12, -5), Iso(13, -5), 10) }

\* The schedules of at most MaxRecords records, no source id twice.
SchedulesOver(records) ==
    {s \in UNION {[1..n -> records] : n \in 0..MaxRecords} :
        \A i, j \in 1..Len(s) : i # j => s[i].id # s[j].id}

\* "Awesome Games Done Quick 2024".split()
AGDQ2024 ==
    << <<65, 119, 101, 115, 111, 109, 101>>, <<71, 97, 109, 101, 115>>, <<68, 111, 110, 101>>,
       <<81, 117, 105, 99, 107>>, <<50, 48, 50, 52>> >>
\* "Frost Fatales 24".split()
FrostFatales24 == << <<70, 114, 111, 115, 116>>, <<70, 97, 116, 97, 108, 101, 115>>, <<50, 52>> >>

\* The words main compares the event name's words with.
WordFatales == <<70, 97, 116, 97, 108, 101, 115>>
WordQueer == <<81, 117, 101, 101, 114>>
WordExpress == <<69, 120, 112, 114, 101, 115, 115>>
NameGDQueer == <<71, 68, 81, 117, 101, 101, 114>>
NameGDQX == <<71, 68, 81, 88>>

\* Contents of fatales_names.txt: empty, or one name.
NameFiles == {<<>>, <<"Alice">>}

\* ------------------------------------------------------------- create_cal

\* Lines 225-226: the runners of a record, each tagged by case-folded membership.
Runners(event, fatales_names) ==
    [i \in 1..Len(event.runners) |->
        [Name |-> event.runners[i], isFatale |-> Lower(event.runners[i]) \in fatales_names]]

\* Line 227: the Speedrun tuple of a record.
Speedrun(event, fatales_names) ==
    LET runners == Runners(event, fatales_names)
    IN  [Game |-> event.name,
         hasFatale |-> \E i \in 1..Len(runners) : runners[i].isFatale,
         Runners |-> runners,
         startTime |-> event.starttime,
         endTime |-> event.endtime,
         id |-> event.id,
         category |-> event.category,
         console |-> event.console]

\* A bug: only the crew name is tested, the second excluded name is forgotten.
IsPlaceholderCrewOnly(run) ==
    run.Game = "Sleep" /\ \E i \in 1..Len(run.Runners) : run.Runners[i].Name = "Tech Crew"

\* Line 228: the placeholder run.
IsPlaceholder(run) ==
    run.Game = "Sleep"
    /\ ((\E i \in 1..Len(run.Runners) : run.Runners[i].Name = "Tech Crew")
        \/ (\E i \in 1..Len(run.Runners) : run.Runners[i].Name = "Faith"))

\* Lines 219-230: the loop over schedule_data, from record k on, all_runs so far
\* in `acc`.  event['starttime'] or event['endtime'] of a record without the key
\* raises KeyError and ends the loop.
RECURSIVE NormalizeFrom(_, _, _, _)
NormalizeFrom(schedule_data, fatales_names, k, acc) ==
    IF k > Len(schedule_data) THEN [error |-> "", all_runs |-> acc]
    ELSE LET event == schedule_data[k] IN
         IF event.type = "interview"
         THEN NormalizeFrom(schedule_data, fatales_names, k + 1, acc)
         ELSE IF event.starttime.kind = "absent" \/ event.endtime.kind = "absent"
         THEN [error |-> "KeyError", all_runs |-> acc]
         ELSE LET run == Speedrun(event, fatales_names) IN
              IF IsPlaceholder(run)
              THEN NormalizeFrom(schedule_data, fatales_names, k + 1, acc)
              ELSE NormalizeFrom(schedule_data, fatales_names, k + 1, Append(acc, run))

\* Line 235.
non_run_names == {"pre-show", "finale", "the checkpoint"}

\* Lines 234-237: the Fatales filter.
FatalesFilter(all_runs) ==
    SelectSeq(all_runs, LAMBDA run : run.hasFatale /\ Lower(run.Game) \notin non_run_names)

\* Lines 259-266: runner_str.
RunnerStr(run, filter_for_fatales) ==
    LET all_runners == [i \in 1..Len(run.Runners) |-> run.Runners[i].Name]
        fatale_rs == SelectSeq(run.Runners, LAMBDA r : r.isFatale)
        fatales == [i \in 1..Len(fatale_rs) |-> fatale_rs[i].Name]
        hasNonFataleRunners == Len(all_runners) > Len(fatales)
    IN  IF filter_for_fatales
        THEN Join(fatales, " & ") \o (IF hasNonFataleRunners THEN <<" & more">> ELSE <<>>)
        ELSE Join(all_runners, ", ")

\* Line 269: summary.
Summary(run, filter_for_fatales) == <<run.Game, " with ">> \o RunnerStr(run, filter_for_fatales)

\* Line 267: description (the schedule link and the build time are left out).
Description(run) ==
    LET all_runners == [i \in 1..Len(run.Runners) |-> run.Runners[i].Name]
    IN  <<"Runner", IF Len(all_runners) > 1 THEN "s" ELSE "", ": ">> \o Join(all_runners, ", ")
        \o <<"\nGame: ", run.Game, "\nCategory: ", run.category, "\nConsole: ", run.console>>

\* Lines 252-281: the portable entry of a run.
IcsEvent(run, filter_for_fatales, year, name) ==
    [summary |-> Summary(run, filter_for_fatales),
     description |-> Description(run),
     dtstart |-> ToUtc(run.startTime),
     dtend |-> ToUtc(run.endTime),
     uid |-> LogicalUid(year, name, run.id)]

\* Lines 245-251 and 283-288: the remote payload of a run.
GcalEvent(run, filter_for_fatales, year, name, enable_gcal) ==
    IF enable_gcal
    THEN [status |-> "confirmed",
          summary |-> Summary(run, filter_for_fatales),
          description |-> Description(run),
          start |-> run.startTime,
          end |-> run.endTime,
          id |-> EncodeRemoteId(LogicalUid(year, name, run.id))]
    ELSE [status |-> "confirmed", summary |-> <<>>, description |-> <<>>,
          start |-> Unset, end |-> Unset, id |-> <<>>]

\* A bug: every run is inserted, whatever the calendar already holds.
QueuedOpInsertOnly(eventId, event_ids, cal_id, gcal_event) ==
    [method |-> "insert", calendarId |-> cal_id, eventId |-> <<>>, body |-> gcal_event]

\* Lines 291-300: the operation queued for a run.
QueuedOp(eventId, event_ids, cal_id, gcal_event) ==
    IF eventId \in event_ids
    THEN [method |-> "update", calendarId |-> cal_id, eventId |-> eventId, body |-> gcal_event]
    ELSE [method |-> "insert", calendarId |-> cal_id, eventId |-> <<>>, body |-> gcal_event]

\* Lines 244-300: the loop over all_runs, from run k on.  A run whose start or
\* end is null makes datetime.fromisoformat raise TypeError and ends the loop.
RECURSIVE BuildFrom(_, _, _, _, _)
BuildFrom(all_runs, k, ctx, calendar, gcal_batch) ==
    IF k > Len(all_runs) THEN [error |-> "", calendar |-> calendar, gcal_batch |-> gcal_batch]
    ELSE LET run == all_runs[k]
             eventId == EncodeRemoteId(LogicalUid(ctx.year, ctx.name, run.id))
         IN  IF run.startTime.kind = "null" \/ run.endTime.kind = "null"
             THEN [error |-> "TypeError", calendar |-> calendar, gcal_batch |-> gcal_batch]
             ELSE BuildFrom(all_runs, k + 1, ctx,
                      Append(calendar, IcsEvent(run, ctx.filter_for_fatales, ctx.year, ctx.name)),
                      Append(gcal_batch,
                             QueuedOp(eventId, ctx.event_ids, ctx.cal_id,
                                      GcalEvent(run, ctx.filter_for_fatales, ctx.year, ctx.name,
                                                ctx.enable_gcal))))

\* Nothing returned: create_cal raised.
NoCal == [returned |-> FALSE, calendar |-> <<>>, gcal_batch |-> <<>>]

\* Lines 201-302: create_cal(schedule_data, cal_service, fatales_names), reading
\* the globals in `g`.  `normalized` tells whether line 232 was reached, and
\* `all_runs` / `filtered` are the values of all_runs at lines 232 and 239.
create_cal(schedule_data, cal_service, fatales_names, g) ==
    LET filter_for_fatales == fatales_names # {}
        cal_id == IF fatales_names # {} THEN g.FATALES_CAL_ID ELSE g.GENERAL_CAL_ID
        events == IF fatales_names # {} THEN g.FATALES_GCAL_EVENTS ELSE g.GENERAL_GCAL_EVENTS
        event_ids == {events[i].id : i \in 1..Len(events)}
        norm == NormalizeFrom(schedule_data, fatales_names, 1, <<>>)
        filtered == IF filter_for_fatales THEN FatalesFilter(norm.all_runs) ELSE norm.all_runs
        ctx == [filter_for_fatales |-> filter_for_fatales, cal_id |-> cal_id,
                event_ids |-> event_ids, year |-> g.GDQ_EVENT_YEAR, name |-> g.GDQ_EVENT_NAME,
                enable_gcal |-> g.ENABLE_GCAL]
        built == BuildFrom(filtered, 1, ctx, <<>>, <<>>)
    IN  IF norm.error # ""
        THEN [error |-> norm.error, normalized |-> FALSE, all_runs |-> <<>>, filtered |-> <<>>,
              result |-> NoCal]
        ELSE IF cal_service = "None"
        THEN [error |-> "AttributeError", normalized |-> TRUE, all_runs |-> norm.all_runs,
              filtered |-> filtered, result |-> NoCal]
        ELSE IF built.error # ""
        THEN [error |-> built.error, normalized |-> TRUE, all_runs |-> norm.all_runs,
              filtered |-> filtered, result |-> NoCal]
        ELSE [error |-> "", normalized |-> TRUE, all_runs |-> norm.all_runs,
              filtered |-> filtered,
              result |-> [returned |-> TRUE, calendar |-> built.calendar,
                          gcal_batch |-> built.gcal_batch]]

\* ------------------------------------------------------------------- main

\* Lines 387-402: GDQ_EVENT_NAME from the words of the event's name.  Indexing a
\* word the name does not have raises IndexError.
EventName(words) ==
    IF Len(words) < 2 THEN [error |-> "IndexError", name |-> <<>>, fatales_event |-> FALSE]
    ELSE IF words[2] = WordFatales
    THEN [error |-> "", name |-> words[1], fatales_event |-> TRUE]
    ELSE IF Len(words) < 3 THEN [error |-> "IndexError", name |-> <<>>, fatales_event |-> FALSE]
    ELSE IF words[3] = WordQueer
    THEN [error |-> "", name |-> NameGDQueer, fatales_event |-> FALSE]
    ELSE IF Len(words) < 4 THEN [error |-> "IndexError", name |-> <<>>, fatales_event |-> FALSE]
    ELSE IF words[4] = WordExpress
    THEN [error |-> "", name |-> NameGDQX, fatales_event |-> FALSE]
    ELSE [error |-> "",
          name |-> [i \in 1..(Len(words) - 1) |-> UpperByte(words[i][1])],
          fatales_event |-> FALSE]

\* Lines 407-410: GDQ_EVENT_YEAR, a two-digit year padded to four digits.
EventYear(words) ==
    LET last == words[Len(words)]
    IN  IF Len(last) = 2 THEN DecStr(2000 + ParseInt(last)) ELSE last

\* Lines 413-414: the calendar names, as the parts their f-strings put together.
CalName(name, year, fatales) == [name |-> name, year |-> year, fatales |-> fatales]

\* ------------------------------------------------- the remote calendar service

GenCal == "gen_cal"
FatCal == "fat_cal"

\* service.events().list(calendarId=...) answers one page at a time.
Paginate(items, perPage) ==
    [p \in 1..((Len(items) + perPage - 1) \div perPage) |->
        SubSeq(items, (p - 1) * perPage + 1, Min(p * perPage, Len(items)))]

\* The identifier an earlier sync of the same event gave source run `id`.
SyncedId(words, id) == EncodeRemoteId(LogicalUid(EventYear(words), EventName(words).name, id))

\* The runs an earlier sync of the schedule put on a calendar: all of them on
\* the general one, those with a tagged participant (the name file then held
\* one name) on the Fatales one.
SyncedRuns(schedule, fatales) ==
    IF fatales THEN FatalesFilter(NormalizeFrom(schedule, {"alice"}, 1, <<>>).all_runs)
    ELSE NormalizeFrom(schedule, {}, 1, <<>>).all_runs

\* What a calendar lists: `stale` entries of runs no longer scheduled, then, when
\* an earlier sync of this schedule ran, one entry per run it put there.
Listing(words, schedule, fatales, synced, stale) ==
    LET runs == SyncedRuns(schedule, fatales)
    IN  [i \in 1..stale |-> [id |-> SyncedId(words, 900 + i)]]
        \o (IF synced THEN [i \in 1..Len(runs) |-> [id |-> SyncedId(words, runs[i].id)]]
            ELSE <<>>)

\* The calendar list of the account: an unrelated calendar, then the event's own
\* calendars that exist.
CalList(words, gen, fat) ==
    LET name == EventName(words).name
        year == EventYear(words)
    IN  << [summary |-> CalName(<<>>, <<>>, FALSE), id |-> "primary", public |-> FALSE] >>
        \o (IF fat # "none"
            THEN << [summary |-> CalName(name, year, TRUE), id |-> FatCal, public |-> TRUE] >>
            ELSE <<>>)
        \o (IF gen # "none"
            THEN << [summary |-> CalName(name, year, FALSE), id |-> GenCal, public |-> TRUE] >>
            ELSE <<>>)

\* Every state of the two remote calendars the sync study starts from.
RemoteStates ==
    [gen : {"none", "unsynced", "synced"}, fat : {"none", "unsynced", "synced"},
     stale : 0..MaxStale, perPage : 1..MaxPerPage]

\* The pairs of calendar states of the sync study.
SyncRemotes ==
    {r \in RemoteStates :
        <<r.gen, r.fat>> \in {<<"none", "none">>, <<"synced", "unsynced">>,
                              <<"unsynced", "synced">>, <<"synced", "synced">>}}

\* The remote state of the main study: both calendars left by an earlier sync.
MainRemotes == {r \in RemoteStates : r.gen = "synced" /\ r.fat = "synced" /\ r.stale = 0 /\ r.perPage = 1}

\* ------------------------------------------------------------------- state

VARIABLES
    \* inputs of the invocation
    args, api, names_file,
    \* the remote calendar service
    cal_list, remote_events, remote_log,
    \* the module's globals
    GDQ_EVENT_NAME, GDQ_EVENT_YEAR, INCLUDE_FATALES_ONLY_CAL, ENABLE_GCAL, DISABLE_GENERAL_CAL,
    GENERAL_CAL_ID, FATALES_CAL_ID, GENERAL_GCAL_EVENTS, FATALES_GCAL_EVENTS,
    \* main's position and locals
    pc, schedule_data, cal_service, event_cal, event_batch, fatales_names,
    fatales_event_cal, fatales_event_batch,
    \* create_cal's all_runs at lines 232 and 239 and whether it returned, per
    \* pass; the files written;
    \* the exception main caught
    passes, files, error,
    \* the identifier study
    study

inputs == <<args, api, names_file>>
remote == <<cal_list, remote_events, remote_log>>
flags == <<INCLUDE_FATALES_ONLY_CAL, ENABLE_GCAL, DISABLE_GENERAL_CAL>>
event_globals == <<GDQ_EVENT_NAME, GDQ_EVENT_YEAR>>
gcal_globals == <<GENERAL_CAL_ID, FATALES_CAL_ID, GENERAL_GCAL_EVENTS, FATALES_GCAL_EVENTS>>
general_locals == <<event_cal, event_batch>>
fatales_locals == <<fatales_names, fatales_event_cal, fatales_event_batch>>
vars == <<inputs, remote, flags, event_globals, gcal_globals, pc, schedule_data, cal_service,
          general_locals, fatales_locals, passes, files, error, study>>

\* The globals create_cal reads.
Globals ==
    [GDQ_EVENT_NAME |-> GDQ_EVENT_NAME, GDQ_EVENT_YEAR |-> GDQ_EVENT_YEAR,
     ENABLE_GCAL |-> ENABLE_GCAL, GENERAL_CAL_ID |-> GENERAL_CAL_ID,
     FATALES_CAL_ID |-> FATALES_CAL_ID, GENERAL_GCAL_EVENTS |-> GENERAL_GCAL_EVENTS,
     FATALES_GCAL_EVENTS |-> FATALES_GCAL_EVENTS]

NoPass == [normalized |-> FALSE, all_runs |-> <<>>, filtered |-> <<>>, returned |-> FALSE]
NoFile == [written |-> FALSE, entries |-> <<>>]
NoStudy == [phase |-> "off", a |-> <<>>, b |-> <<>>, uid_a |-> <<>>, uid_b |-> <<>>,
            id_a |-> <<>>, id_b |-> <<>>]

\* Lines 71-96: the globals as the module sets them, before main runs.
ModuleGlobals ==
    /\ GDQ_EVENT_NAME = <<>>
    /\ GDQ_EVENT_YEAR = <<>>
    /\ INCLUDE_FATALES_ONLY_CAL = FALSE
    /\ ENABLE_GCAL = FALSE
    /\ DISABLE_GENERAL_CAL = FALSE
    /\ GENERAL_CAL_ID = ""
    /\ FATALES_CAL_ID = ""
    /\ GENERAL_GCAL_EVENTS = <<>>
    /\ FATALES_GCAL_EVENTS = <<>>

MainLocals ==
    /\ schedule_data = <<>>
    /\ cal_service = "None"
    /\ event_cal = <<>>
    /\ event_batch = <<>>
    /\ fatales_names = {}
    /\ fatales_event_cal = <<>>
    /\ fatales_event_batch = <<>>
    /\ passes = [general |-> NoPass, fatales |-> NoPass]
    /\ files = [general |-> NoFile, fatales |-> NoFile]
    /\ error = ""

\* An invocation of main: command-line flags, an API response with a schedule
\* from `schedules` and an event name from `names`, a tagged-name file, and the
\* remote calendars in a state from `remotes`.
InitWith(schedules, names, remotes) ==
    /\ api \in [name : names, schedule : schedules]
    /\ \E r \in remotes :
          /\ cal_list = CalList(api.name, r.gen, r.fat)
          /\ remote_events =
                [c \in {GenCal, FatCal} |->
                    LET st == IF c = GenCal THEN r.gen ELSE r.fat
                    IN  IF st = "none" THEN <<>>
                        ELSE Paginate(Listing(api.name, api.schedule, c = FatCal, st = "synced",
                                              r.stale),
                                      r.perPage)]
    /\ remote_log = <<>>
    /\ args \in [fatales : BOOLEAN, gcal : BOOLEAN, disable_general : BOOLEAN]
    /\ names_file \in NameFiles
    /\ ModuleGlobals
    /\ MainLocals
    /\ pc = "main"
    /\ study = NoStudy

Init == InitWith(SchedulesOver(RawRecords), {AGDQ2024}, MainRemotes)

InitSync == InitWith(SchedulesOver(SyncRecords), {AGDQ2024, FrostFatales24}, SyncRemotes)

\* --------------------------------------- find_or_create_google_calendars

\* Lines 141-150: the scan of the calendar list, from entry k on.
RECURSIVE ScanCalList(_, _, _, _, _, _)
ScanCalList(list, k, general_name, fatales_name, general_id, fatales_id) ==
    IF k > Len(list) THEN [GENERAL_CAL_ID |-> general_id, FATALES_CAL_ID |-> fatales_id]
    ELSE IF general_id = "" /\ list[k].summary = general_name
    THEN ScanCalList(list, k + 1, general_name, fatales_name, list[k].id, fatales_id)
    ELSE IF fatales_id = "" /\ list[k].summary = fatales_name
    THEN ScanCalList(list, k + 1, general_name, fatales_name, general_id, list[k].id)
    ELSE ScanCalList(list, k + 1, general_name, fatales_name, general_id, fatales_id)

\* Lines 172-178 and 190-196: the first page of the listing and, if the service
\* says there is another, the second.
ListEvents(pages) ==
    IF Len(pages) = 0 THEN <<>>
    ELSE IF Len(pages) > 1 THEN pages[1] \o pages[2]
    ELSE pages[1]

\* Lines 134-199: find_or_create_google_calendars, on the service's calendar list
\* and event listings.  `created` are the calendars it inserts (made public).
find_or_create_google_calendars(list, listings, general_name, fatales_name, fatales, disable) ==
    LET found == ScanCalList(list, 1, general_name, fatales_name, GENERAL_CAL_ID, FATALES_CAL_ID)
        create_general == found.GENERAL_CAL_ID = "" /\ ~disable
        fetch_general == ~create_general /\ ~disable
        create_fatales == found.FATALES_CAL_ID = "" /\ fatales
        fetch_fatales == found.FATALES_CAL_ID # "" /\ fatales
    IN  [GENERAL_CAL_ID |-> IF create_general THEN GenCal ELSE found.GENERAL_CAL_ID,
         FATALES_CAL_ID |-> IF create_fatales THEN FatCal ELSE found.FATALES_CAL_ID,
         GENERAL_GCAL_EVENTS |->
            IF fetch_general THEN GENERAL_GCAL_EVENTS \o ListEvents(listings[found.GENERAL_CAL_ID])
            ELSE GENERAL_GCAL_EVENTS,
         FATALES_GCAL_EVENTS |->
            IF fetch_fatales THEN FATALES_GCAL_EVENTS \o ListEvents(listings[found.FATALES_CAL_ID])
            ELSE FATALES_GCAL_EVENTS,
         created |->
            (IF create_general
             THEN << [summary |-> general_name, id |-> GenCal, public |-> TRUE] >> ELSE <<>>)
            \o (IF create_fatales
                THEN << [summary |-> fatales_name, id |-> FatCal, public |-> TRUE] >> ELSE <<>>)]

\* ----------------------------------------------------------------- actions

\* Lines 438-439: main's handler logs the exception; nothing later in main runs.
Caught(exception) ==
    /\ pc' = "failed"
    /\ error' = exception

\* Lines 367-379: the command line sets the globals.
ParseArgs ==
    /\ pc = "main"
    /\ INCLUDE_FATALES_ONLY_CAL' = args.fatales
    /\ ENABLE_GCAL' = (IF args.gcal THEN TRUE ELSE ENABLE_GCAL)
    /\ DISABLE_GENERAL_CAL' = (IF args.disable_general THEN TRUE ELSE DISABLE_GENERAL_CAL)
    /\ pc' = "get_schedule"
    /\ UNCHANGED <<inputs, remote, event_globals, gcal_globals, schedule_data, cal_service,
                   general_locals, fatales_locals, passes, files, error, study>>

\* Lines 116-129 and 383: the schedule is fetched.  The debug line formats
\* schedule_data[1], which raises IndexError on a schedule of fewer than two records.
GetSchedule ==
    /\ pc = "get_schedule"
    /\ IF Len(api.schedule) < 2
       THEN Caught("IndexError") /\ UNCHANGED schedule_data
       ELSE /\ schedule_data' = api.schedule
            /\ pc' = "set_globals"
            /\ UNCHANGED error
    /\ UNCHANGED <<inputs, remote, flags, event_globals, gcal_globals, cal_service,
                   general_locals, fatales_locals, passes, files, study>>

\* Lines 130-132: the request fails and get_schedule re-raises.
GetScheduleFails ==
    /\ pc = "get_schedule"
    /\ Caught("RequestException")
    /\ UNCHANGED <<inputs, remote, flags, event_globals, gcal_globals, schedule_data, cal_service,
                   general_locals, fatales_locals, passes, files, study>>

\* Lines 385-414: the event's short name and year, and with them the calendar names.
SetEventGlobals ==
    /\ pc = "set_globals"
    /\ LET derived == EventName(api.name) IN
       IF derived.error # ""
       THEN Caught(derived.error) /\ UNCHANGED <<event_globals, INCLUDE_FATALES_ONLY_CAL>>
       ELSE /\ GDQ_EVENT_NAME' = derived.name
            /\ INCLUDE_FATALES_ONLY_CAL' =
                  (IF derived.fatales_event THEN FALSE ELSE INCLUDE_FATALES_ONLY_CAL)
            /\ GDQ_EVENT_YEAR' = EventYear(api.name)
            /\ pc' = "google"
            /\ UNCHANGED error
    /\ UNCHANGED <<inputs, remote, ENABLE_GCAL, DISABLE_GENERAL_CAL, gcal_globals, schedule_data,
                   cal_service, general_locals, fatales_locals, passes, files, study>>

\* Lines 416-420: with remote sync enabled, the service is built and the
\* calendars found or created; without it cal_service stays None.
ConnectGoogle ==
    /\ pc = "google"
    /\ IF ENABLE_GCAL
       THEN LET r == find_or_create_google_calendars(
                         cal_list, remote_events,
                         CalName(GDQ_EVENT_NAME, GDQ_EVENT_YEAR, FALSE),
                         CalName(GDQ_EVENT_NAME, GDQ_EVENT_YEAR, TRUE),
                         INCLUDE_FATALES_ONLY_CAL, DISABLE_GENERAL_CAL)
            IN  /\ cal_service' = "service"
                /\ GENERAL_CAL_ID' = r.GENERAL_CAL_ID
                /\ FATALES_CAL_ID' = r.FATALES_CAL_ID
                /\ GENERAL_GCAL_EVENTS' = r.GENERAL_GCAL_EVENTS
                /\ FATALES_GCAL_EVENTS' = r.FATALES_GCAL_EVENTS
                /\ cal_list' = cal_list \o r.created
       ELSE UNCHANGED <<cal_service, gcal_globals, cal_list>>
    /\ pc' = "create_general"
    /\ UNCHANGED <<inputs, remote_events, remote_log, flags, event_globals, schedule_data,
                   general_locals, fatales_locals, passes, files, error, study>>

\* Line 423: create_cal without a tagged-name set.
CreateGeneralCal ==
    /\ pc = "create_general"
    /\ LET r == create_cal(schedule_data, cal_service, {}, Globals) IN
          /\ passes' = [passes EXCEPT !.general =
                           [normalized |-> r.normalized, all_runs |-> r.all_runs,
                            filtered |-> r.filtered, returned |-> r.error = ""]]
          /\ IF r.error # ""
             THEN Caught(r.error) /\ UNCHANGED general_locals
             ELSE /\ event_cal' = r.result.calendar
                  /\ event_batch' = r.result.gcal_batch
                  /\ pc' = "write_general"
                  /\ UNCHANGED error
    /\ UNCHANGED <<inputs, remote, flags, event_globals, gcal_globals, schedule_data, cal_service,
                   fatales_locals, files, study>>

\* Line 424 (304-309): the general document is written.
CreateGeneralIcs ==
    /\ pc = "write_general"
    /\ files' = [files EXCEPT !.general = [written |-> TRUE, entries |-> event_cal]]
    /\ pc' = "execute_general"
    /\ UNCHANGED <<inputs, remote, flags, event_globals, gcal_globals, schedule_data, cal_service,
                   general_locals, fatales_locals, passes, error, study>>

\* Lines 425-427: the general batch is executed, unless sync is off or the
\* general calendar disabled.
ExecuteGeneralBatch ==
    /\ pc = "execute_general"
    /\ remote_log' = (IF ENABLE_GCAL /\ ~DISABLE_GENERAL_CAL
                      THEN remote_log \o event_batch ELSE remote_log)
    /\ pc' = "fatales"
    /\ UNCHANGED <<inputs, cal_list, remote_events, flags, event_globals, gcal_globals,
                   schedule_data, cal_service, general_locals, fatales_locals, passes, files,
                   error, study>>

\* Lines 429-431 (99-114): the tagged names are read and case-folded; without
\* the Fatales calendar main is done.
ReadFatalesNames ==
    /\ pc = "fatales"
    /\ IF INCLUDE_FATALES_ONLY_CAL
       THEN /\ fatales_names' = {Lower(names_file[i]) : i \in 1..Len(names_file)}
            /\ pc' = "create_fatales"
       ELSE /\ pc' = "done"
            /\ UNCHANGED fatales_names
    /\ UNCHANGED <<inputs, remote, flags, event_globals, gcal_globals, schedule_data, cal_service,
                   general_locals, fatales_event_cal, fatales_event_batch, passes, files, error,
                   study>>

\* Lines 105-107: the name file is not there and read_file_as_list re-raises.
FatalesNamesMissing ==
    /\ pc = "fatales"
    /\ INCLUDE_FATALES_ONLY_CAL
    /\ Caught("FileNotFoundError")
    /\ UNCHANGED <<inputs, remote, flags, event_globals, gcal_globals, schedule_data, cal_service,
                   general_locals, fatales_locals, passes, files, study>>

\* Line 432: create_cal with the tagged-name set.
CreateFatalesCal ==
    /\ pc = "create_fatales"
    /\ LET r == create_cal(schedule_data, cal_service, fatales_names, Globals) IN
          /\ passes' = [passes EXCEPT !.fatales =
                           [normalized |-> r.normalized, all_runs |-> r.all_runs,
                            filtered |-> r.filtered, returned |-> r.error = ""]]
          /\ IF r.error # ""
             THEN Caught(r.error) /\ UNCHANGED <<fatales_event_cal, fatales_event_batch>>
             ELSE /\ fatales_event_cal' = r.result.calendar
                  /\ fatales_event_batch' = r.result.gcal_batch
                  /\ pc' = "write_fatales"
                  /\ UNCHANGED error
    /\ UNCHANGED <<inputs, remote, flags, event_globals, gcal_globals, schedule_data, cal_service,
                   general_locals, fatales_names, files, study>>

\* Line 433 (304-309): the Fatales document is written.
CreateFatalesIcs ==
    /\ pc = "write_fatales"
    /\ files' = [files EXCEPT !.fatales = [written |-> TRUE, entries |-> fatales_event_cal]]
    /\ pc' = "execute_fatales"
    /\ UNCHANGED <<inputs, remote, flags, event_globals, gcal_globals, schedule_data, cal_service,
                   general_locals, fatales_locals, passes, error, study>>

\* Lines 434-436: the Fatales batch is executed when sync is on.
ExecuteFatalesBatch ==
    /\ pc = "execute_fatales"
    /\ remote_log' = (IF ENABLE_GCAL THEN remote_log \o fatales_event_batch ELSE remote_log)
    /\ pc' = "done"
    /\ UNCHANGED <<inputs, cal_list, remote_events, flags, event_globals, gcal_globals,
                   schedule_data, cal_service, general_locals, fatales_locals, passes, files,
                   error, study>>

Next ==
    \/ ParseArgs
    \/ GetSchedule
    \/ GetScheduleFails
    \/ SetEventGlobals
    \/ ConnectGoogle
    \/ CreateGeneralCal
    \/ CreateGeneralIcs
    \/ ExecuteGeneralBatch
    \/ ReadFatalesNames
    \/ FatalesNamesMissing
    \/ CreateFatalesCal
    \/ CreateFatalesIcs
    \/ ExecuteFatalesBatch

\* The main study: every schedule, remote calendars left by an earlier sync.
Spec == Init /\ [][Next]_vars

\* The sync study: well-formed schedules, every state of the remote calendars.
SpecSync == InitSync /\ [][Next]_vars

\* ------------------------------------------------------ identifier study

Year2024 == <<50, 48, 50, 52>>
Year2025 == <<50, 48, 50, 53>>
StudyNames == {EventName(AGDQ2024).name, EventName(FrostFatales24).name, NameGDQX, NameGDQueer}
StudyKeys == [year : {Year2024, Year2025}, name : StudyNames, id : 0..MaxRunId]

\* Two runs, each given by (year, short name, source run id).
InitStudy ==
    /\ api = [name |-> AGDQ2024, schedule |-> <<>>]
    /\ cal_list = <<>>
    /\ remote_events = [c \in {GenCal, FatCal} |-> <<>>]
    /\ remote_log = <<>>
    /\ args = [fatales |-> FALSE, gcal |-> FALSE, disable_general |-> FALSE]
    /\ names_file = <<>>
    /\ ModuleGlobals
    /\ MainLocals
    /\ pc = "study"
    /\ \E a, b \in StudyKeys : study = [NoStudy EXCEPT !.phase = "chosen", !.a = a, !.b = b]

\* Lines 254-257 for both runs: icalUid and eventId.
DeriveIds ==
    /\ study.phase = "chosen"
    /\ LET uid_a == LogicalUid(study.a.year, study.a.name, study.a.id)
           uid_b == LogicalUid(study.b.year, study.b.name, study.b.id)
       IN  study' = [study EXCEPT !.phase = "encoded", !.uid_a = uid_a, !.uid_b = uid_b,
                                  !.id_a = EncodeRemoteId(uid_a), !.id_b = EncodeRemoteId(uid_b)]
    /\ UNCHANGED <<inputs, remote, flags, event_globals, gcal_globals, pc, schedule_data,
                   cal_service, general_locals, fatales_locals, passes, files, error>>

NextStudy == DeriveIds

\* The identifier study: the identity deriver on pairs of runs.
SpecStudy == InitStudy /\ [][NextStudy]_vars

\* ------------------------------------------------------------------ claims

Uid(id) == LogicalUid(GDQ_EVENT_YEAR, GDQ_EVENT_NAME, id)
EventIdsOf(events) == {events[i].id : i \in 1..Len(events)}

\* The existing identifiers main fetched for a calendar.
ExistingIds(calendarId) ==
    IF calendarId = GENERAL_CAL_ID THEN EventIdsOf(GENERAL_GCAL_EVENTS)
    ELSE EventIdsOf(FATALES_GCAL_EVENTS)

\* Each run of `runs`, in order, has exactly its operation in `batch`: an update
\* if its identifier is among those fetched for the operation's calendar, an
\* insert otherwise.
PlannedFor(runs, batch) ==
    /\ Len(batch) = Len(runs)
    /\ \A i \in 1..Len(runs) :
          LET eventId == EncodeRemoteId(Uid(runs[i].id))
              op == batch[i]
          IN  /\ op.body.id = eventId
              /\ IF eventId \in ExistingIds(op.calendarId)
                 THEN op.method = "update" /\ op.eventId = eventId
                 ELSE op.method = "insert"

\* C1: create_cal queues exactly one operation per filtered run, in the order of
\* the runs: an Update if the run's remote-safe identifier is in the existing
\* set of the target calendar, a Create (insert) otherwise.
C1_OneOpPerRun ==
    /\ pc = "write_general" => PlannedFor(passes.general.filtered, event_batch)
    /\ pc = "write_fatales" => PlannedFor(passes.fatales.filtered, fatales_event_batch)

\* C1's case: a batch of a pass that holds an update and an insert.
C1_Witness ==
    /\ pc = "write_fatales"
    /\ \E i, j \in 1..Len(event_batch) :
          event_batch[i].method = "update" /\ event_batch[j].method = "insert"
    /\ \E i \in 1..Len(fatales_event_batch) : fatales_event_batch[i].method = "update"

\* The names of a run's participants that are in the tagged-name set.
Tagged(run, names) == SelectSeq([i \in 1..Len(run.Runners) |-> run.Runners[i].Name],
                                LAMBDA n : Lower(n) \in names)

\* C2: the subset projection's output never contains a run with zero tagged
\* participants, for every tagged-name set, the empty one included; the general
\* projection's output contains every normalized run exactly once.
C2_Projections ==
    /\ pc = "write_fatales" =>
          /\ Len(fatales_event_cal) = Len(passes.fatales.filtered)
          /\ \A i \in 1..Len(fatales_event_cal) :
                Tagged(passes.fatales.filtered[i], fatales_names) # <<>>
    /\ pc = "write_general" =>
          /\ Len(event_cal) = Len(passes.general.all_runs)
          /\ \A i \in 1..Len(event_cal) : event_cal[i].uid = Uid(passes.general.all_runs[i].id)

\* Every operation of `batch` targets `calendarId` and is chosen by membership
\* in `existing`.
PassUses(batch, calendarId, existing) ==
    \A i \in 1..Len(batch) :
        /\ batch[i].calendarId = calendarId
        /\ batch[i].method = "update" <=> batch[i].body.id \in EventIdsOf(existing)

\* C3: every operation of the subset pass targets the subset calendar and is
\* chosen by the subset calendar's existing identifiers, every operation of the
\* general pass targets the general calendar and is chosen by the general
\* calendar's, whatever the tagged-name set holds.
C3_NoInterference ==
    /\ pc = "write_general" => PassUses(event_batch, GENERAL_CAL_ID, GENERAL_GCAL_EVENTS)
    /\ pc = "write_fatales" => PassUses(fatales_event_batch, FATALES_CAL_ID, FATALES_GCAL_EVENTS)

\* The remote calendar holds an entry, left by an earlier sync of the same
\* event, for every run of `runs`.
RemoteHoldsAll(calendarId, runs) ==
    /\ calendarId \in DOMAIN remote_events
    /\ \A i \in 1..Len(runs) :
          SyncedId(api.name, runs[i].id) \in EventIdsOf(Flatten(remote_events[calendarId]))

\* Every operation of `batch` for a calendar that holds all of `runs` is an update.
OnlyUpdates(batch, runs) ==
    \A i \in 1..Len(batch) :
        RemoteHoldsAll(batch[i].calendarId, runs) => batch[i].method = "update"

\* C4: with remote sync enabled and a remote calendar that already holds an
\* entry for every run of the pass, every operation queued for that calendar
\* in a batch main executes is an Update, for any number of existing entries and
\* of listing pages.
C4_ResyncOnlyUpdates ==
    /\ (pc = "write_general" /\ ENABLE_GCAL /\ ~DISABLE_GENERAL_CAL)
          => OnlyUpdates(event_batch, passes.general.filtered)
    /\ (pc = "write_fatales" /\ ENABLE_GCAL)
          => OnlyUpdates(fatales_event_batch, passes.fatales.filtered)

\* A record that satisfies the Run invariants of the data model.
WellFormed(record) ==
    /\ record.starttime.kind = "iso"
    /\ record.endtime.kind = "iso"
    /\ record.runners # <<>>

\* C5: when remote sync is not enabled, the fetch succeeds (get_schedule returned
\* the schedule) and every record is well-formed, create_cal completes and the
\* general document is written with one entry per normalized run.
C5_SyncOptional ==
    ( /\ pc \in {"done", "failed"}
      /\ ~args.gcal
      /\ schedule_data = api.schedule /\ schedule_data # <<>>
      /\ \A k \in 1..Len(api.schedule) : WellFormed(api.schedule[k]) )
    => /\ passes.general.returned
       /\ files.general.written
       /\ Len(files.general.entries) = Len(passes.general.all_runs)

\* C6: if any record of the schedule is malformed (start or end missing, or an
\* empty participant list), the invocation fails: no portable document is
\* written and no batch is executed.
C6_AllOrNothing ==
    (\E k \in 1..Len(schedule_data) : ~WellFormed(schedule_data[k]))
    => /\ pc # "done"
       /\ ~files.general.written
       /\ ~files.fatales.written
       /\ remote_log = <<>>

\* The document has one entry per run, in the order of the runs, each with its
\* start strictly before its end in UTC.
DocumentOf(runs, calendar) ==
    /\ Len(calendar) = Len(runs)
    /\ \A i \in 1..Len(runs) :
          /\ calendar[i].uid = Uid(runs[i].id)
          /\ calendar[i].dtstart < calendar[i].dtend

\* C7: a document built from N filtered runs has exactly N entries, in the order
\* of the runs, and every entry has its start strictly before its end in UTC.
C7_EntriesOrdered ==
    /\ pc = "write_general" => DocumentOf(passes.general.filtered, event_cal)
    /\ pc = "write_fatales" => DocumentOf(passes.fatales.filtered, fatales_event_cal)

\* The placeholder case of a raw record.
PlaceholderRecord(record) ==
    /\ record.name = "Sleep"
    /\ "Tech Crew" \in SeqToSet(record.runners) \/ "Faith" \in SeqToSet(record.runners)

\* The records that are to reach the normalized run list.
KeptRecords(schedule) ==
    SelectSeq(schedule, LAMBDA r : r.type # "interview" /\ ~PlaceholderRecord(r))

\* The run is the record's: same source id, title, times and participants.
RunOfRecord(run, record) ==
    /\ run.id = record.id
    /\ run.Game = record.name
    /\ run.startTime = record.starttime
    /\ run.endTime = record.endtime
    /\ [i \in 1..Len(run.Runners) |-> run.Runners[i].Name] = record.runners

\* all_runs holds the kept records of the schedule, in schedule order, and the
\* written document holds no entry of a dropped record.
NormalizedAs(pass, file) ==
    LET kept == KeptRecords(schedule_data) IN
    /\ pass.normalized =>
          /\ Len(pass.all_runs) = Len(kept)
          /\ \A i \in 1..Len(kept) : RunOfRecord(pass.all_runs[i], kept[i])
    /\ \A i \in 1..Len(file.entries) : \A k \in 1..Len(schedule_data) :
          (schedule_data[k].type = "interview" \/ PlaceholderRecord(schedule_data[k]))
          => file.entries[i].uid # Uid(schedule_data[k].id)

\* C8: a raw record reaches the normalized run list, in schedule order, if and
\* only if it is not an interview and not the placeholder run ("Sleep" with a
\* participant "Tech Crew" or "Faith"); interviews and the placeholder run are
\* in neither projection's output.
C8_NormalizedRuns ==
    /\ NormalizedAs(passes.general, files.general)
    /\ NormalizedAs(passes.fatales, files.fatales)

\* C8's case: a schedule with the placeholder run under its second name, and a
\* run that is kept, was written out.
C8_Witness ==
    /\ files.general.written
    /\ Len(files.general.entries) = 1
    /\ \E k \in 1..Len(schedule_data) :
          PlaceholderRecord(schedule_data[k]) /\ "Faith" \in SeqToSet(schedule_data[k].runners)

\* C9: the remote-safe identifier is a deterministic and injective function of
\* the logical UID: the same (year, short name, source id) gives the same UID and
\* identifier, and two distinct UIDs never encode to the same identifier.
C9_IdentifierInjective ==
    study.phase = "encoded" =>
        /\ study.a = study.b => study.uid_a = study.uid_b /\ study.id_a = study.id_b
        /\ study.uid_a # study.uid_b => study.id_a # study.id_b

\* C9's case: two runs of one event whose UIDs differ in the last byte only.
C9_Witness ==
    /\ study.phase = "encoded"
    /\ study.a.year = study.b.year
    /\ study.a.name = study.b.name
    /\ study.a.id = 4
    /\ study.b.id = 5
    /\ study.id_a # study.id_b

\* Every summary of the document is "{game} with {runner_str}" with the
\* runner_str of the projection.
SummariesOf(runs, calendar, subset, names) ==
    /\ Len(calendar) = Len(runs)
    /\ \A i \in 1..Len(runs) :
          LET all == [k \in 1..Len(runs[i].Runners) |-> runs[i].Runners[k].Name]
              tagged == Tagged(runs[i], names)
              runner_str == IF subset
                            THEN Join(tagged, " & ")
                                 \o (IF Len(tagged) < Len(all) THEN <<" & more">> ELSE <<>>)
                            ELSE Join(all, ", ")
          IN  calendar[i].summary = <<runs[i].Game, " with ">> \o runner_str

\* C10: in the general projection runner_str is all participant names joined by
\* ", "; in the subset projection it is the tagged names joined by " & ",
\* followed by " & more" if and only if the run has an untagged participant.
C10_Summaries ==
    /\ pc = "write_general" => SummariesOf(passes.general.filtered, event_cal, FALSE, {})
    /\ pc = "write_fatales" =>
          SummariesOf(passes.fatales.filtered, fatales_event_cal, TRUE, fatales_names)

====
